---- MODULE Spec2Model ----
(***************************************************************************)
(* Window dragging of MusicFreeDesktop (src/shared/window-drag/main.ts).   *)
(*                                                                         *)
(* Strategy A (process.platform = "win32"): makeWin32WindowFullyDraggable  *)
(* hooks WM_MOUSEMOVE and WM_LBUTTONUP of a window and moves the window    *)
(* itself.  Strategy B (any other platform): the window is put into        *)
(* registeredWindows and the "set-window-draggable" ipc message moves it;  *)
(* onDragEnd is wrapped in a 300ms trailing debounce.                      *)
(***************************************************************************)
EXTENDS Integers, Sequences, FiniteSets, TLC

----------------------------------------------------------------------------
(* Program constants *)

WM_MOUSEMOVE == 512
WM_LBUTTONUP == 514
MK_LBUTTON == 1
DebounceWait == 300
DebounceLeadingMutant == TRUE
DebounceLeading == FALSE
DebounceTrailing == TRUE

----------------------------------------------------------------------------
(* Bounds of the model *)

\* repositioning moves one window may receive over a run
MaxMoves == 2
\* the volume range [0, 1] is cut into this many slider steps
VolumeSteps == 5
\* reposition messages in one burst of one window
MaxBurst == 2
\* granularity of the clock, in ms
TickMs == 100
\* setWindowDraggable calls of a run with repeated registrations
MaxRegistrations == 2

Windows == {"main", "lyric"}
\* the sender of an ipc message that resolves to no window
NoWindow == "none"
Platforms == {"win32", "linux"}
\* the windows the application makes draggable
Registrable == {"main"}
OptIds == 1..Cardinality(Windows)

Null == [null |-> TRUE]
Point(x, y) == [x |-> x, y |-> y]
Size(w, h) == [width |-> w, height |-> h]

\* bounds every window has when it is created
InitialBounds == [x |-> 1, y |-> 2, width |-> 8, height |-> 7]
\* fallback width/height a caller registers
FallbackSizes == {Size(8, 7)}
\* values the caller's getWindowSize may return
WindowSizes == {Size(4, 3), Size(6, 5)}
\* positions carried by "set-window-draggable" messages
MsgPositions == {Point(5, 5), Point(-3, 7)}

\* two-byte little-endian encoding of a signed 16-bit integer
Int16LE(n) == LET u == IF n < 0 THEN n + 65536 ELSE n
              IN  <<u % 256, u \div 256>>
\* lParam of WM_MOUSEMOVE: x at offset 0, y at offset 2
LParams == {Int16LE(p.x) \o Int16LE(p.y) :
              p \in {Point(-1, 0), Point(2, 1)}}
\* wParam of WM_MOUSEMOVE: the key-state flags (MK_LBUTTON, MK_RBUTTON, ...)
WParams == {Int16LE(f) : f \in {0, 1, 2}}

----------------------------------------------------------------------------
(* Buffer decoding and bit arithmetic *)

\* Buffer.readInt16LE(offset)
ReadInt16LE(buf, offset) ==
    LET u == buf[offset + 1] + 256 * buf[offset + 2]
    IN  IF u >= 32768 THEN u - 65536 ELSE u

RECURSIVE BitAndNat(_, _)
BitAndNat(a, b) ==
    IF a = 0 \/ b = 0 THEN 0
    ELSE (IF a % 2 = 1 /\ b % 2 = 1 THEN 1 ELSE 0)
         + 2 * BitAndNat(a \div 2, b \div 2)

\* JavaScript a & b on operands that fit 16 bits, b >= 0
BitAnd(a, b) == BitAndNat(IF a < 0 THEN a + 65536 ELSE a, b)

\* !(wParamNumber & MK_LBUTTON) is false
LeftButtonPressedMutant(wParam) == ReadInt16LE(wParam, 0) # 0
LeftButtonPressed(wParam) == BitAnd(ReadInt16LE(wParam, 0), MK_LBUTTON) # 0

Min(a, b) == IF a < b THEN a ELSE b

----------------------------------------------------------------------------
VARIABLES
    platform,           \* process.platform
    closed,             \* closed[w]: the window's 'closed' event has fired
    bounds,             \* bounds[w]: what getPosition/getBounds of w return
    cfgSize,            \* cfgSize[o]: what getWindowSize of options o returns
    options,            \* options[o]: the caller's options object o, or Null
    hookOpts,           \* hookOpts[w]: options destructured by the win32 hooks
    dragging,           \* closure variable of the hooks of w
    initialPos,         \* closure variable of the hooks of w
    cachePosition,      \* closure variable of the hooks of w
    registeredWindows,  \* WindowDrag.registeredWindows: window -> options id
    closedListener,     \* closedListener[w]: window.on("closed") installed
    debs,               \* the debounced closures, in creation order
    last,               \* the handler that ran last and the calls it made
    regOpt,             \* regOpt[w]: options id w was registered with, or 0
    regCount,           \* setWindowDraggable calls so far
    moved,              \* moved[w]: repositioning moves so far
    pressedSeen,        \* a button-set move came since the latest release
    startPos,           \* window position at the latest origin capture
    sumDelta,           \* sum of (pointer - origin) over the session's moves
    lastPtr,            \* pointer of the session's latest repositioning move
    sessionMoves,       \* repositioning moves since the latest origin capture
    sessionCalls,       \* onDragEnd calls since the latest origin capture
    sessionSize,        \* size in force at the latest origin capture
    sinceMsg,           \* ms since the latest reposition message, saturated
    burstMsgs,          \* messages of the current burst
    burstMoves,         \* setBounds calls of the current burst
    burstCalls,         \* original onDragEnd calls since the burst began
    burstArg,           \* argument of the latest of those calls
    lastMsgPos          \* position of the latest reposition message

progVars == <<platform, closed, bounds, cfgSize, options, hookOpts, dragging,
              initialPos, cachePosition, registeredWindows, closedListener,
              debs>>
sessionVars == <<pressedSeen, startPos, sumDelta, lastPtr, sessionMoves,
                 sessionCalls, sessionSize>>
burstVars == <<sinceMsg, burstMsgs, burstMoves, burstCalls, burstArg,
               lastMsgPos>>
regVars == <<regOpt, regCount>>

\* VolumeBtn (renderer/components/MusicBar/widgets/Extra/index.tsx)
VARIABLES
    volume,             \* what useVolume() returns at the latest render
    tmpVolumeRef,       \* tmpVolumeRef.current: << >> for null, else <<v>>
    volLast,            \* the volume handler that ran last
    volPrev             \* the volume handler that ran before it

volVars == <<volume, tmpVolumeRef, volLast, volPrev>>
vars == <<progVars, last, regVars, moved, sessionVars, burstVars, volVars>>

\* volumes are counted in slider steps: 0 is the code's 0, VolumeSteps its 1
Muted == 0
FullVolume == VolumeSteps
VolumeLevels == Muted..FullVolume

\* a volume handler: the volume and the remembered value it found and the
\* value it passed to setVolume
VolFx(op, from, remembered, arg) ==
    [op |-> op, from |-> from, remembered |-> remembered, arg |-> arg]

\* VolumeBtn before its first click, rendered with volume v
InitVolumeBtn(v) ==
    /\ volume = v
    /\ tmpVolumeRef = << >>
    /\ volLast = VolFx("init", v, << >>, v)
    /\ volPrev = VolFx("init", v, << >>, v)

\* the calls a handler made, none yet
Fx(op, w) == [op |-> op, w |-> w, wParam |-> <<>>, lParam |-> <<>>,
              position |-> Null, setBounds |-> <<>>, getPosition |-> 0,
              getWindowSize |-> 0, dragEnd |-> <<>>, threw |-> FALSE]

InitWindowDrag ==
    /\ platform \in Platforms
    /\ closed = [w \in Windows |-> FALSE]
    /\ bounds = [w \in Windows |-> InitialBounds]
    /\ cfgSize = [o \in OptIds |-> Size(4, 3)]
    /\ options = [o \in OptIds |-> Null]
    /\ hookOpts = [w \in Windows |-> Null]
    /\ dragging = [w \in Windows |-> FALSE]
    /\ initialPos = [w \in Windows |-> Null]
    /\ cachePosition = [w \in Windows |-> Null]
    /\ registeredWindows = [w \in {} |-> 0]
    /\ closedListener = [w \in Windows |-> FALSE]
    /\ debs = << >>
    /\ last = Fx("init", NoWindow)
    /\ regOpt = [w \in Windows |-> 0]
    /\ regCount = 0
    /\ moved = [w \in Windows |-> 0]
    /\ pressedSeen = [w \in Windows |-> FALSE]
    /\ startPos = [w \in Windows |-> Null]
    /\ sumDelta = [w \in Windows |-> Point(0, 0)]
    /\ lastPtr = [w \in Windows |-> Null]
    /\ sessionMoves = [w \in Windows |-> 0]
    /\ sessionCalls = [w \in Windows |-> 0]
    /\ sessionSize = [w \in Windows |-> Null]
    /\ sinceMsg = [w \in Windows |-> DebounceWait]
    /\ burstMsgs = [w \in Windows |-> 0]
    /\ burstMoves = [w \in Windows |-> 0]
    /\ burstCalls = [w \in Windows |-> 0]
    /\ burstArg = [w \in Windows |-> Null]
    /\ lastMsgPos = [w \in Windows |-> Null]

Init == InitWindowDrag /\ InitVolumeBtn(FullVolume)

----------------------------------------------------------------------------
(* Callables: the caller's original onDragEnd of options o, or a debounced  *)
(* closure.  A call state is [debs, calls]: the closures and the original   *)
(* onDragEnd invocations made so far in this handler.                       *)

Original(o) == [kind |-> "orig", id |-> o]
Debounced(k) == [kind |-> "deb", id |-> k]

\* debounce(fn, 300, {leading: false, trailing: true}): a call (re)starts the
\* timer and keeps the latest arguments; nothing is called on the leading
\* edge unless the leading option is set
RECURSIVE Call(_, _, _)
Call(c, p, st) ==
    IF c.kind = "orig"
    THEN [st EXCEPT !.calls = Append(@, [opt |-> c.id, position |-> p])]
    ELSE LET d == st.debs[c.id]
             armed == [st EXCEPT !.debs[c.id] =
                          [d EXCEPT !.pending = TRUE,
                                    !.remaining = DebounceWait,
                                    !.args = p]]
         IN  IF DebounceLeading /\ ~d.pending
             THEN Call(d.fn, p, armed)
             ELSE armed

NoTimerDue ==
    \A k \in 1..Len(debs) : ~(debs[k].pending /\ debs[k].remaining = 0)

\* number of calls of st that go to the original onDragEnd of options o
CallsTo(calls, o) == Cardinality({i \in 1..Len(calls) : calls[i].opt = o})
LastArgTo(calls, o, old) ==
    LET S == {i \in 1..Len(calls) : calls[i].opt = o}
    IN  IF S = {} THEN old
        ELSE calls[CHOOSE i \in S : \A j \in S : j <= i].position

\* the burst bookkeeping after a handler made the given original calls;
\* the count stops at two
NoteCalls(calls) ==
    /\ burstCalls' = [w \in Windows |->
                        Min(2, burstCalls[w] + CallsTo(calls, regOpt[w]))]
    /\ burstArg' = [w \in Windows |->
                        LastArgTo(calls, regOpt[w], burstArg[w])]

----------------------------------------------------------------------------
(* Registration *)

\* makeWin32WindowFullyDraggable(browserWindow, options): destructures the
\* options and installs the two hooks with fresh closure variables
MakeWin32WindowFullyDraggable(w, o, opt) ==
    /\ hookOpts' = [hookOpts EXCEPT ![w] =
                       [width |-> opt.width, height |-> opt.height,
                        getWindowSize |-> opt.getWindowSize,
                        onDragEnd |-> opt.onDragEnd, opt |-> o]]
    /\ initialPos' = [initialPos EXCEPT ![w] =
                       [x |-> 0, y |-> 0,
                        height |-> opt.height, width |-> opt.width]]
    /\ dragging' = [dragging EXCEPT ![w] = FALSE]
    /\ cachePosition' = [cachePosition EXCEPT ![w] = Null]
    /\ options' = [options EXCEPT ![o] = opt]
    /\ UNCHANGED <<registeredWindows, closedListener, debs>>

\* process.platform === "win32"
IsWin32Mutant == TRUE
IsWin32 == platform = "win32"

\* WindowDrag.setWindowDraggable(window, options), options being the caller's
\* object o whose content is opt
SetWindowDraggable(w, o, opt) ==
    /\ IF IsWin32
       THEN MakeWin32WindowFullyDraggable(w, o, opt)
       ELSE /\ debs' = Append(debs, [fn |-> opt.onDragEnd, pending |-> FALSE,
                                     remaining |-> 0, args |-> Null])
            /\ options' = [options EXCEPT ![o] =
                             [opt EXCEPT !.onDragEnd = Debounced(Len(debs) + 1)]]
            /\ registeredWindows' =
                 [x \in DOMAIN registeredWindows \cup {w} |->
                     IF x = w THEN o ELSE registeredWindows[x]]
            /\ closedListener' = [closedListener EXCEPT ![w] = TRUE]
            /\ UNCHANGED <<hookOpts, dragging, initialPos, cachePosition>>
    /\ regOpt' = [regOpt EXCEPT ![w] = o]
    /\ regCount' = regCount + 1
    /\ last' = Fx("setWindowDraggable", w)
    /\ UNCHANGED <<platform, closed, bounds, cfgSize, moved, sessionVars,
                   burstVars, volVars>>

\* the application registers an open window once, with an options object
\* of its own
Register ==
    \E w \in Registrable, o \in OptIds, fb \in FallbackSizes, gws \in BOOLEAN :
        /\ NoTimerDue
        /\ ~closed[w]
        /\ regOpt[w] = 0
        /\ options[o] = Null
        /\ \A o2 \in OptIds : o2 < o => options[o2] # Null
        /\ SetWindowDraggable(w, o,
               [width |-> fb.width, height |-> fb.height,
                getWindowSize |-> gws, onDragEnd |-> Original(o)])

----------------------------------------------------------------------------
(* Strategy A: the hooks of makeWin32WindowFullyDraggable *)

\* what the hook's getWindowSize() returns
GetWindowSize(o) == cfgSize[o]

\* if (!dragging)
IsFirstMoveMutant(w) == FALSE
IsFirstMove(w) == ~dragging[w]

\* the !dragging branch of the WM_MOUSEMOVE hook: capture the origin
CaptureOrigin(w, x, y, fx) ==
    LET h == hookOpts[w]
        size == IF h.getWindowSize THEN GetWindowSize(h.opt)
                ELSE Size(h.width, h.height)
    IN  /\ dragging' = [dragging EXCEPT ![w] = TRUE]
        /\ initialPos' = [initialPos EXCEPT ![w] =
                            [x |-> x, y |-> y,
                             height |-> size.height, width |-> size.width]]
        /\ last' = [fx EXCEPT !.getWindowSize =
                                  IF h.getWindowSize THEN 1 ELSE 0]
        /\ pressedSeen' = [pressedSeen EXCEPT ![w] = TRUE]
        /\ startPos' = [startPos EXCEPT ![w] = Point(bounds[w].x, bounds[w].y)]
        /\ sumDelta' = [sumDelta EXCEPT ![w] = Point(0, 0)]
        /\ lastPtr' = [lastPtr EXCEPT ![w] = Null]
        /\ sessionMoves' = [sessionMoves EXCEPT ![w] = 0]
        /\ sessionCalls' = [sessionCalls EXCEPT ![w] = 0]
        /\ sessionSize' = [sessionSize EXCEPT ![w] = size]
        /\ UNCHANGED <<cachePosition, bounds, moved>>

\* cachePosition = {x: x + getPosition()[0] - initialPos.x, y: ...}
NewPositionClamped(w, x, y) ==
    LET px == x + bounds[w].x - initialPos[w].x
        py == y + bounds[w].y - initialPos[w].y
    IN  Point(IF px < 0 THEN 0 ELSE px, IF py < 0 THEN 0 ELSE py)
NewPositionMutant(w, x, y) ==
    Point(x + startPos[w].x - initialPos[w].x,
          y + startPos[w].y - initialPos[w].y)
NewPosition(w, x, y) ==
    Point(x + bounds[w].x - initialPos[w].x,
          y + bounds[w].y - initialPos[w].y)

\* the argument of browserWindow.setBounds({x: cachePosition.x, ...})
BoundsForSwapped(w, pos) ==
    [x |-> pos.y, y |-> pos.x,
     height |-> initialPos[w].height, width |-> initialPos[w].width]
BoundsForLiveSize(w, pos) ==
    LET h == hookOpts[w]
        size == IF h.getWindowSize THEN cfgSize[h.opt]
                ELSE Size(h.width, h.height)
    IN  [x |-> pos.x, y |-> pos.y,
         height |-> size.height, width |-> size.width]
BoundsFor(w, pos) ==
    [x |-> pos.x, y |-> pos.y,
     height |-> initialPos[w].height, width |-> initialPos[w].width]

\* the dragging branch of the WM_MOUSEMOVE hook: move the window
Reposition(w, x, y, fx) ==
    LET pos == NewPosition(w, x, y)
        b == BoundsFor(w, pos)
    IN  /\ moved[w] < MaxMoves
        /\ cachePosition' = [cachePosition EXCEPT ![w] = pos]
        /\ bounds' = [bounds EXCEPT ![w] = b]
        /\ last' = [fx EXCEPT !.getPosition = 2,
                              !.setBounds = <<[w |-> w, bounds |-> b]>>]
        /\ moved' = [moved EXCEPT ![w] = @ + 1]
        /\ sumDelta' = [sumDelta EXCEPT ![w] =
                          Point(@.x + x - initialPos[w].x,
                                @.y + y - initialPos[w].y)]
        /\ lastPtr' = [lastPtr EXCEPT ![w] = Point(x, y)]
        /\ sessionMoves' = [sessionMoves EXCEPT ![w] = @ + 1]
        /\ pressedSeen' = [pressedSeen EXCEPT ![w] = TRUE]
        /\ UNCHANGED <<dragging, initialPos, startPos, sessionCalls,
                       sessionSize>>

\* browserWindow.hookWindowMessage(WM_MOUSEMOVE, (wParam, lParam) => ...).
\* browserWindow is a constant of the closure, so `if (!browserWindow)` never
\* returns; getPosition() of a destroyed window throws.
MouseMoveHook(w, wParam, lParam) ==
    LET fx == [Fx("WM_MOUSEMOVE", w) EXCEPT !.wParam = wParam,
                                             !.lParam = lParam]
        x == ReadInt16LE(lParam, 0)
        y == ReadInt16LE(lParam, 2)
    IN  /\ hookOpts[w] # Null
        /\ NoTimerDue
        /\ IF ~LeftButtonPressed(wParam)
           THEN /\ last' = fx
                /\ UNCHANGED <<dragging, initialPos, cachePosition, bounds,
                               moved, sessionVars>>
           ELSE IF IsFirstMove(w)
           THEN CaptureOrigin(w, x, y, fx)
           ELSE IF closed[w]
           THEN /\ last' = [fx EXCEPT !.getPosition = 1, !.threw = TRUE]
                /\ pressedSeen' = [pressedSeen EXCEPT ![w] = TRUE]
                /\ UNCHANGED <<dragging, initialPos, cachePosition, bounds,
                               moved, startPos, sumDelta, lastPtr,
                               sessionMoves, sessionCalls, sessionSize>>
           ELSE Reposition(w, x, y, fx)
        /\ UNCHANGED <<platform, closed, cfgSize, options, hookOpts,
                       registeredWindows, closedListener, debs, regVars, volVars,
                       burstVars>>

\* if (cachePosition !== null)
HasCachedPositionMutant(w) == dragging[w]
HasCachedPosition(w) == cachePosition[w] # Null

\* dragging = false
DraggingAfterReleaseMutant(w) == dragging[w]
DraggingAfterRelease(w) == FALSE

\* cachePosition = null
ClearedCacheMutant(w) == cachePosition[w]
ClearedCache(w) == Null

\* browserWindow.hookWindowMessage(WM_LBUTTONUP, () => ...)
LButtonUpHook(w) ==
    LET st0 == [debs |-> debs, calls |-> <<>>]
        st == IF HasCachedPosition(w)
              THEN Call(hookOpts[w].onDragEnd, cachePosition[w], st0)
              ELSE st0
    IN  /\ hookOpts[w] # Null
        /\ NoTimerDue
        /\ dragging' = [dragging EXCEPT ![w] = DraggingAfterRelease(w)]
        /\ cachePosition' = [cachePosition EXCEPT ![w] = ClearedCache(w)]
        /\ debs' = st.debs
        /\ last' = [Fx("WM_LBUTTONUP", w) EXCEPT !.dragEnd = st.calls]
        /\ sessionCalls' = [sessionCalls EXCEPT ![w] = @ + Len(st.calls)]
        /\ NoteCalls(st.calls)
        /\ pressedSeen' = [pressedSeen EXCEPT ![w] = FALSE]
        /\ UNCHANGED <<platform, closed, bounds, cfgSize, options, hookOpts,
                       initialPos, registeredWindows, closedListener, regVars, volVars,
                       moved, startPos, sumDelta, lastPtr, sessionMoves,
                       sessionSize, sinceMsg, burstMsgs, burstMoves,
                       lastMsgPos>>

----------------------------------------------------------------------------
(* Strategy B: the ipc handler, the debounce timers, the 'closed' listener *)

\* this.registeredWindows.has(window)
HasWindowMutant(sender) == sender \in Windows /\ regOpt[sender] # 0
HasWindow(sender) == sender \in DOMAIN registeredWindows

\* this.registeredWindows.get(window): the options object, or undefined
GetOptions(sender) ==
    IF sender \in DOMAIN registeredWindows THEN registeredWindows[sender]
    ELSE 0

\* width/height of the handler: metadata.getWindowSize() if present, else
\* metadata.width/height
MessageSizeMutant(o) == Size(options[o].width, options[o].height)
MessageSize(o) ==
    IF options[o].getWindowSize THEN GetWindowSize(o)
    ELSE Size(options[o].width, options[o].height)

\* ipcMain.on("set-window-draggable", (_evt, position) => ...) as installed by
\* WindowDrag.setup(); sender is BrowserWindow.fromWebContents(_evt.sender)
OnSetWindowDraggable(sender, position) ==
    LET fx == [Fx("set-window-draggable", sender) EXCEPT !.position = position]
        o == GetOptions(sender)
    IN  /\ NoTimerDue
        /\ IF HasWindow(sender) /\ o = 0
           THEN \* metadata is undefined: reading metadata.width throws
                /\ last' = [fx EXCEPT !.threw = TRUE]
                /\ UNCHANGED <<bounds, debs, burstVars>>
           ELSE IF HasWindow(sender)
           THEN LET metadata == options[o]
                    size == MessageSize(o)
                    b == [x |-> position.x, y |-> position.y,
                          height |-> size.height, width |-> size.width]
                    st == Call(metadata.onDragEnd, position,
                               [debs |-> debs, calls |-> <<>>])
                    fresh == sinceMsg[sender] >= DebounceWait
                IN  /\ fresh \/ burstMsgs[sender] < MaxBurst
                    /\ bounds' = [bounds EXCEPT ![sender] = b]
                    /\ debs' = st.debs
                    /\ last' = [fx EXCEPT
                          !.getWindowSize =
                              IF metadata.getWindowSize THEN 1 ELSE 0,
                          !.setBounds = <<[w |-> sender, bounds |-> b]>>,
                          !.dragEnd = st.calls]
                    /\ sinceMsg' = [sinceMsg EXCEPT ![sender] = 0]
                    /\ burstMsgs' = [burstMsgs EXCEPT ![sender] =
                                        IF fresh THEN 1 ELSE @ + 1]
                    /\ burstMoves' = [burstMoves EXCEPT ![sender] =
                                        IF fresh THEN 1 ELSE @ + 1]
                    /\ lastMsgPos' = [lastMsgPos EXCEPT ![sender] = position]
                    /\ burstCalls' = [w \in Windows |->
                          (IF w = sender /\ fresh THEN 0 ELSE burstCalls[w])
                          + CallsTo(st.calls, regOpt[w])]
                    /\ burstArg' = [w \in Windows |->
                          LastArgTo(st.calls, regOpt[w],
                              IF w = sender /\ fresh THEN Null
                              ELSE burstArg[w])]
           ELSE /\ last' = fx
                /\ UNCHANGED <<bounds, debs, burstVars>>
        /\ UNCHANGED <<platform, closed, cfgSize, options, hookOpts, dragging,
                       initialPos, cachePosition, registeredWindows,
                       closedListener, regVars, volVars, moved, sessionVars>>

\* the timer of debounced closure k expires: the trailing call
TimerFire(k) ==
    LET d == debs[k]
        st0 == [debs |-> [debs EXCEPT ![k] = [d EXCEPT !.pending = FALSE,
                                                       !.args = Null]],
                calls |-> <<>>]
        st == IF DebounceTrailing THEN Call(d.fn, d.args, st0) ELSE st0
    IN  /\ d.pending
        /\ d.remaining = 0
        /\ debs' = st.debs
        /\ last' = [Fx("timer", NoWindow) EXCEPT !.dragEnd = st.calls]
        /\ NoteCalls(st.calls)
        /\ UNCHANGED <<platform, closed, bounds, cfgSize, options, hookOpts,
                       dragging, initialPos, cachePosition, registeredWindows,
                       closedListener, regVars, volVars, moved, sessionVars, sinceMsg,
                       burstMsgs, burstMoves, lastMsgPos>>

\* time passes, up to the next timer that is due
Tick ==
    LET P == {k \in 1..Len(debs) : debs[k].pending}
        d == CHOOSE n \in {TickMs} \cup {debs[k].remaining : k \in P} :
                 \A m \in {TickMs} \cup {debs[k].remaining : k \in P} : n <= m
    IN  /\ P # {}
        /\ NoTimerDue
        /\ debs' = [k \in 1..Len(debs) |->
                      IF debs[k].pending
                      THEN [debs[k] EXCEPT !.remaining = @ - d]
                      ELSE debs[k]]
        /\ sinceMsg' = [w \in Windows |-> Min(DebounceWait, sinceMsg[w] + d)]
        /\ last' = Fx("tick", NoWindow)
        /\ UNCHANGED <<platform, closed, bounds, cfgSize, options, hookOpts,
                       dragging, initialPos, cachePosition, registeredWindows,
                       closedListener, regVars, volVars, moved, sessionVars, burstMsgs,
                       burstMoves, burstCalls, burstArg, lastMsgPos>>

\* window.on("closed", () => this.registeredWindows.delete(window))
ClosedListenerMutant(w) == UNCHANGED registeredWindows
ClosedListener(w) ==
    registeredWindows' = [x \in DOMAIN registeredWindows \ {w} |->
                             registeredWindows[x]]

\* the window is closed: its 'closed' event runs the listeners installed
Closed(w) ==
    /\ NoTimerDue
    /\ ~closed[w]
    /\ closed' = [closed EXCEPT ![w] = TRUE]
    /\ IF closedListener[w] THEN ClosedListener(w)
       ELSE UNCHANGED registeredWindows
    /\ last' = Fx("closed", w)
    /\ UNCHANGED <<platform, bounds, cfgSize, options, hookOpts, dragging,
                   initialPos, cachePosition, closedListener, debs, regVars, volVars,
                   moved, sessionVars, burstVars>>

\* the size the caller's getWindowSize reports changes
ChangeSize(o) ==
    /\ NoTimerDue
    /\ options[o] # Null
    /\ options[o].getWindowSize
    /\ \E s \in WindowSizes \ {cfgSize[o]} :
           cfgSize' = [cfgSize EXCEPT ![o] = s]
    /\ last' = Fx("resize", NoWindow)
    /\ UNCHANGED <<platform, closed, bounds, options, hookOpts, dragging,
                   initialPos, cachePosition, registeredWindows,
                   closedListener, debs, regVars, volVars, moved, sessionVars,
                   burstVars>>

----------------------------------------------------------------------------
Next ==
    \/ Register
    \/ \E w \in Windows, wParam \in WParams, lParam \in LParams :
           MouseMoveHook(w, wParam, lParam)
    \/ \E w \in Windows : LButtonUpHook(w)
    \/ \E sender \in Windows \cup {NoWindow}, position \in MsgPositions :
           OnSetWindowDraggable(sender, position)
    \/ \E k \in 1..Len(debs) : TimerFire(k)
    \/ Tick
    \/ \E w \in Windows : Closed(w)
    \/ \E o \in OptIds : ChangeSize(o)

Spec == Init /\ [][Next]_vars

----------------------------------------------------------------------------
(* Registrations of any open window, again or for the first time, with a    *)
(* new options object or with one that an earlier registration was given.   *)
(* A window is registered while no drag is in progress and no onDragEnd     *)
(* call is pending; the options carry no getWindowSize.                     *)

RegisterAny ==
    \E w \in Windows, o \in OptIds, fb \in FallbackSizes :
        /\ NoTimerDue
        /\ ~closed[w]
        /\ regCount < MaxRegistrations
        /\ \A k \in 1..Len(debs) : ~debs[k].pending
        /\ \A v \in Windows : ~dragging[v]
        /\ \A o2 \in OptIds : o2 < o => options[o2] # Null
        /\ SetWindowDraggable(w, o,
               IF options[o] # Null THEN options[o]
               ELSE [width |-> fb.width, height |-> fb.height,
                     getWindowSize |-> FALSE, onDragEnd |-> Original(o)])

\* the events of two windows, with one button-set pointer event and one
\* message position per window
PointerOfWindow(w) ==
    IF w = "main" THEN Int16LE(2) \o Int16LE(1) ELSE Int16LE(-1) \o Int16LE(0)
PositionOfWindow(w) == IF w = "main" THEN Point(5, 5) ELSE Point(-3, 7)

NextAny ==
    \/ RegisterAny
    \/ \E w \in Windows : MouseMoveHook(w, Int16LE(MK_LBUTTON),
                                        PointerOfWindow(w))
    \/ \E w \in Windows : LButtonUpHook(w)
    \/ \E sender \in Windows : OnSetWindowDraggable(sender,
                                                     PositionOfWindow(sender))
    \/ \E k \in 1..Len(debs) : TimerFire(k)
    \/ Tick
    \/ \E w \in Windows : Closed(w)

SpecAny == Init /\ [][NextAny]_vars

----------------------------------------------------------------------------
(* Properties *)

HookOps == {"WM_MOUSEMOVE", "WM_LBUTTONUP"}
Hooked(w) == hookOpts[w] # Null
\* the button bit 0x0001 of a WM_MOUSEMOVE wParam, read off its bytes
ButtonBit(wParam) == wParam[1] % 2 = 1
PointerOf(lParam) == Point(ReadInt16LE(lParam, 0), ReadInt16LE(lParam, 2))
NoCalls(fx) ==
    /\ fx.setBounds = <<>>
    /\ fx.getPosition = 0
    /\ fx.getWindowSize = 0
    /\ fx.dragEnd = <<>>
    /\ ~fx.threw

\* C1: on an open hooked window a drag session (origin capture, N >= 1
\* repositioning moves, release) invokes onDragEnd exactly once: not while the
\* session is dragging, never from a move, and once by the time the release
\* has run, with no further invocation until a new session begins.
DragEndOncePerDrag ==
    \A w \in Windows :
        Hooked(w) /\ ~closed[w] =>
            /\ dragging[w] => sessionCalls[w] = 0
            /\ ~dragging[w] /\ sessionMoves[w] >= 1 => sessionCalls[w] = 1
            /\ last.op = "WM_MOUSEMOVE" => last.dragEnd = <<>>

DragEndOncePerDragWitness ==
    \E w \in Windows :
        /\ ~closed[w]
        /\ last.op = "WM_LBUTTONUP" /\ last.w = w
        /\ sessionMoves[w] >= 2
        /\ sessionCalls[w] = 1
        /\ Len(last.dragEnd) = 1

\* C2 as stated: the position passed to onDragEnd is the window position at
\* drag start plus the last move's delta (pN - p0).
DragEndAtStartPlusLastDelta ==
    \A w \in Windows :
        last.op = "WM_LBUTTONUP" /\ last.w = w /\ last.dragEnd # <<>> =>
            last.dragEnd[1].position =
                Point(startPos[w].x + lastPtr[w].x - initialPos[w].x,
                      startPos[w].y + lastPtr[w].y - initialPos[w].y)

\* C2 amended: the position passed to onDragEnd is the window position at
\* drag start plus the sum of the deltas (pi - p0) of all N moves of the
\* session; with N = 1 that is the start position plus (pN - p0).
DragEndAtStartPlusAllDeltas ==
    \A w \in Windows :
        last.op = "WM_LBUTTONUP" /\ last.w = w /\ last.dragEnd # <<>> =>
            /\ last.dragEnd[1].position =
                   Point(startPos[w].x + sumDelta[w].x,
                         startPos[w].y + sumDelta[w].y)
            /\ sessionMoves[w] = 1 =>
                   last.dragEnd[1].position =
                       Point(startPos[w].x + lastPtr[w].x - initialPos[w].x,
                             startPos[w].y + lastPtr[w].y - initialPos[w].y)

DragEndAtStartPlusAllDeltasWitness ==
    \E w \in Windows :
        /\ last.op = "WM_LBUTTONUP" /\ last.w = w /\ last.dragEnd # <<>>
        /\ sessionMoves[w] >= 2
        /\ sumDelta[w] # Point(lastPtr[w].x - initialPos[w].x,
                               lastPtr[w].y - initialPos[w].y)

\* C3: the first button-set move after registration or after a release makes
\* no setBounds call and leaves lastPosition and the window where they are;
\* it sets dragging and records the pointer and the size (getWindowSize() if
\* provided, else the fallback width/height) as the origin.
OriginCaptureOnly ==
    [][\A w \in Windows :
          /\ last'.op = "WM_MOUSEMOVE" /\ last'.w = w
          /\ ButtonBit(last'.wParam)
          /\ ~pressedSeen[w]
          => /\ last'.setBounds = <<>>
             /\ last'.getPosition = 0
             /\ last'.dragEnd = <<>>
             /\ bounds' = bounds
             /\ cachePosition'[w] = cachePosition[w]
             /\ cachePosition'[w] = Null
             /\ dragging'[w]
             /\ initialPos'[w].x = PointerOf(last'.lParam).x
             /\ initialPos'[w].y = PointerOf(last'.lParam).y
             /\ IF hookOpts[w].getWindowSize
                THEN /\ last'.getWindowSize = 1
                     /\ initialPos'[w].width = cfgSize[hookOpts[w].opt].width
                     /\ initialPos'[w].height = cfgSize[hookOpts[w].opt].height
                ELSE /\ last'.getWindowSize = 0
                     /\ initialPos'[w].width = hookOpts[w].width
                     /\ initialPos'[w].height = hookOpts[w].height
      ]_vars

\* a second session has captured its origin at another pointer than the first
OriginCaptureOnlyWitness ==
    \E w \in Windows :
        /\ last.op = "WM_MOUSEMOVE" /\ last.w = w /\ ButtonBit(last.wParam)
        /\ last.setBounds = <<>>
        /\ moved[w] >= 1
        /\ sessionMoves[w] = 0
        /\ dragging[w]
        /\ initialPos[w].x = PointerOf(last.lParam).x
        /\ hookOpts[w].getWindowSize

\* C4: a move whose button bit 0x0001 is not set changes nothing and calls
\* nothing, in any state.
ButtonlessMoveIgnored ==
    [][\A w \in Windows :
          /\ last'.op = "WM_MOUSEMOVE" /\ last'.w = w
          /\ ~ButtonBit(last'.wParam)
          => /\ NoCalls(last')
             /\ UNCHANGED progVars
      ]_vars

\* a move with only another button's bit set arrived in the middle of a drag
ButtonlessMoveIgnoredWitness ==
    \E w \in Windows :
        /\ last.op = "WM_MOUSEMOVE" /\ last.w = w
        /\ ~ButtonBit(last.wParam)
        /\ last.wParam # <<0, 0>>
        /\ dragging[w]
        /\ cachePosition[w] # Null

\* C5: a release invokes onDragEnd, once and with lastPosition, exactly when
\* lastPosition is non-null, which is exactly when a repositioning move came
\* since the previous release; it always leaves dragging false and
\* lastPosition null.
ReleaseNotifiesIffCached ==
    [][\A w \in Windows :
          last'.op = "WM_LBUTTONUP" /\ last'.w = w =>
             /\ (cachePosition[w] # Null)
                    <=> (pressedSeen[w] /\ sessionMoves[w] >= 1)
             /\ IF cachePosition[w] # Null
                THEN last'.dragEnd = <<[opt |-> hookOpts[w].opt,
                                        position |-> cachePosition[w]]>>
                ELSE last'.dragEnd = <<>>
             /\ ~dragging'[w]
             /\ cachePosition'[w] = Null
      ]_vars

\* a release that follows only the origin-capturing move
ReleaseNotifiesIffCachedWitness ==
    \E w \in Windows :
        /\ last.op = "WM_LBUTTONUP" /\ last.w = w
        /\ last.dragEnd = <<>>
        /\ startPos[w] # Null
        /\ sessionMoves[w] = 0
        /\ moved[w] >= 1

\* the caller's original onDragEnd of the options w was registered with
OriginalOf(w) == regOpt[w]

\* C6: for a registered open window a burst of reposition messages, each less
\* than 300ms after the previous one, makes one call of the caller's original
\* onDragEnd: none while the burst lasts and none by the message handler
\* itself, one with the last message's position once 300ms have passed since
\* the last message.
DebounceCollapsesBurst ==
    \A w \in DOMAIN registeredWindows :
        /\ burstCalls[w] <= 1
        /\ sinceMsg[w] < DebounceWait => burstCalls[w] = 0
        /\ burstCalls[w] = 1 => burstArg[w] = lastMsgPos[w]
        /\ burstMsgs[w] >= 1 /\ sinceMsg[w] >= DebounceWait /\ NoTimerDue
               => burstCalls[w] = 1
        /\ last.op = "set-window-draggable" => last.dragEnd = <<>>

\* a burst of two messages with different positions has been answered
DebounceCollapsesBurstWitness ==
    \E w \in DOMAIN registeredWindows :
        /\ last.op = "timer"
        /\ last.dragEnd = <<[opt |-> OriginalOf(w),
                             position |-> lastMsgPos[w]]>>
        /\ burstMsgs[w] = 2
        /\ burstCalls[w] = 1
        /\ bounds[w].x = lastMsgPos[w].x
        /\ lastMsgPos[w] = Point(-3, 7)

\* C7: a reposition message whose sender is not in the registry calls
\* nothing, schedules nothing and changes neither the registry nor any window.
UnregisteredSenderIgnored ==
    [][\A s \in Windows \cup {NoWindow} :
          /\ last'.op = "set-window-draggable" /\ last'.w = s
          /\ s \notin DOMAIN registeredWindows
          => /\ NoCalls(last')
             /\ UNCHANGED progVars
      ]_vars

\* the message came from a window that is registered with the win32 hooks
UnregisteredSenderIgnoredWitness ==
    \E w \in Windows :
        /\ last.op = "set-window-draggable" /\ last.w = w
        /\ Hooked(w)
        /\ ~closed[w]
        /\ w \notin DOMAIN registeredWindows

\* C8: a closed window is not in the registry, and a reposition message
\* attributed to it calls neither setBounds nor getWindowSize, starts no
\* timer and raises no error.
ClosedWindowUnregistered ==
    [][\A w \in Windows :
          /\ closed[w] => w \notin DOMAIN registeredWindows
          /\ closed'[w] => w \notin DOMAIN registeredWindows'
          /\ closed[w] /\ last'.op = "set-window-draggable" /\ last'.w = w
             => /\ NoCalls(last')
                /\ bounds' = bounds
                /\ debs' = debs
      ]_vars

\* a message came for a window that was in the registry until it closed
ClosedWindowUnregisteredWitness ==
    \E w \in Windows :
        /\ closed[w]
        /\ closedListener[w]
        /\ lastMsgPos[w] # Null
        /\ last.op = "set-window-draggable" /\ last.w = w

\* C9 as stated: a move or release event of a hooked window that has closed
\* calls neither getPosition nor setBounds nor onDragEnd and raises no error.
HooksIgnoredAfterClose ==
    \A w \in Windows :
        Hooked(w) /\ closed[w] /\ last.op \in HookOps /\ last.w = w =>
            /\ last.getPosition = 0
            /\ last.setBounds = <<>>
            /\ last.dragEnd = <<>>
            /\ ~last.threw

\* C10 as stated: the caller's original onDragEnd of a registry window is
\* never invoked once the window has closed.
NoDragEndAfterClose ==
    \A w \in Windows :
        closedListener[w] /\ closed[w] =>
            \A i \in 1..Len(last.dragEnd) : last.dragEnd[i].opt # OriginalOf(w)

\* a button-set WM_MOUSEMOVE of the open window w has run in the step while
\* dragging was true
RepositioningStep(w) ==
    /\ last'.op = "WM_MOUSEMOVE" /\ last'.w = w
    /\ ButtonBit(last'.wParam)
    /\ dragging[w]
    /\ ~closed[w]

\* C11: a button-set move processed while dragging is true calls setBounds
\* once, with top-left = getPosition() of that moment + (pointer of the event
\* - pointer of the origin) on each axis, and caches that top-left as
\* lastPosition; nothing is clamped, so negative pointers and negative
\* results pass through.
RepositionArithmetic ==
    [][\A w \in Windows :
          RepositioningStep(w) =>
             LET p == PointerOf(last'.lParam)
                 nx == bounds[w].x + (p.x - initialPos[w].x)
                 ny == bounds[w].y + (p.y - initialPos[w].y)
             IN  /\ Len(last'.setBounds) = 1
                 /\ last'.setBounds[1].w = w
                 /\ last'.setBounds[1].bounds.x = nx
                 /\ last'.setBounds[1].bounds.y = ny
                 /\ cachePosition'[w] = Point(nx, ny)
                 /\ bounds'[w].x = nx
                 /\ bounds'[w].y = ny
      ]_vars

\* a move at a negative pointer coordinate has put the window at a negative x
RepositionArithmeticWitness ==
    \E w \in Windows :
        /\ last.op = "WM_MOUSEMOVE" /\ last.w = w
        /\ Len(last.setBounds) = 1
        /\ PointerOf(last.lParam).x < 0
        /\ last.setBounds[1].bounds.x < 0
        /\ cachePosition[w].x = last.setBounds[1].bounds.x

\* C12: every setBounds of a drag session carries the width and height that
\* were in force at the session's origin capture (getWindowSize() if
\* provided, else the fallback); getWindowSize is called once, by the origin
\* capture, and by no repositioning move, so a later change of its result
\* does not reach setBounds before the next session.
SessionSizeFixed ==
    [][\A w \in Windows :
          /\ RepositioningStep(w) =>
                /\ last'.getWindowSize = 0
                /\ Len(last'.setBounds) = 1
                /\ last'.setBounds[1].bounds.width = sessionSize[w].width
                /\ last'.setBounds[1].bounds.height = sessionSize[w].height
                /\ sessionSize'[w] = sessionSize[w]
          /\ ( /\ last'.op = "WM_MOUSEMOVE" /\ last'.w = w
               /\ ButtonBit(last'.wParam) /\ ~dragging[w] /\ ~closed[w] ) =>
                /\ last'.getWindowSize =
                       (IF hookOpts[w].getWindowSize THEN 1 ELSE 0)
                /\ sessionSize'[w] =
                       (IF hookOpts[w].getWindowSize
                        THEN cfgSize[hookOpts[w].opt]
                        ELSE Size(hookOpts[w].width, hookOpts[w].height))
      ]_vars

\* the window was moved in a session after getWindowSize had changed its
\* result
SessionSizeFixedWitness ==
    \E w \in Windows :
        /\ last.op = "WM_MOUSEMOVE" /\ last.w = w
        /\ Len(last.setBounds) = 1
        /\ hookOpts[w].getWindowSize
        /\ cfgSize[hookOpts[w].opt] # sessionSize[w]
        /\ last.setBounds[1].bounds.width = sessionSize[w].width

\* C13: every reposition message of a registered open window makes one
\* setBounds call in the handler, at the message's {x, y} with the size of
\* getWindowSize() called for that message if present, else of the fallback;
\* onDragEnd goes to the debounced closure only, so a burst of k messages
\* has k setBounds calls and at most one original onDragEnd call.
RepositionNotDebounced ==
    [][\A w \in DOMAIN registeredWindows :
          /\ last'.op = "set-window-draggable" /\ last'.w = w =>
                LET m == options[registeredWindows[w]]
                    size == IF m.getWindowSize
                            THEN cfgSize[registeredWindows[w]]
                            ELSE Size(m.width, m.height)
                IN  /\ last'.setBounds =
                          <<[w |-> w,
                             bounds |-> [x |-> last'.position.x,
                                         y |-> last'.position.y,
                                         height |-> size.height,
                                         width |-> size.width]]>>
                    /\ bounds'[w] = last'.setBounds[1].bounds
                    /\ last'.getWindowSize = (IF m.getWindowSize THEN 1 ELSE 0)
                    /\ last'.dragEnd = <<>>
                    /\ debs'[m.onDragEnd.id].pending
                    /\ debs'[m.onDragEnd.id].args = last'.position
          /\ burstMoves'[w] = burstMsgs'[w]
          /\ burstCalls'[w] <= 1
      ]_vars

\* a burst of two messages moved the window twice and was reported once,
\* with a size that getWindowSize returned
RepositionNotDebouncedWitness ==
    \E w \in DOMAIN registeredWindows :
        /\ last.op = "timer"
        /\ burstMoves[w] = 2
        /\ burstCalls[w] = 1
        /\ options[registeredWindows[w]].getWindowSize
        /\ bounds[w].width = 6

\* C14: lastPosition is non-null only while dragging is true and a
\* repositioning move has been processed since the last release; dragging is
\* true only if a button-set move has been processed since the last release
\* or the registration; lastPosition is null right after a release.
DragSessionInvariant ==
    \A w \in Windows :
        Hooked(w) =>
            /\ cachePosition[w] # Null =>
                   dragging[w] /\ pressedSeen[w] /\ sessionMoves[w] >= 1
            /\ dragging[w] => pressedSeen[w]
            /\ last.op = "WM_LBUTTONUP" /\ last.w = w =>
                   cachePosition[w] = Null /\ ~dragging[w]

\* a session that has moved the window and one that has just been released
DragSessionInvariantWitness ==
    \E w \in Windows :
        /\ last.op = "WM_LBUTTONUP" /\ last.w = w
        /\ Len(last.dragEnd) = 1
        /\ cachePosition[w] = Null
        /\ sessionMoves[w] >= 1
        /\ ~pressedSeen[w]

\* C17: under the win32 hooks onDragEnd is invoked by the release handler
\* itself, never by a debounce timer, and its argument is non-null and equal
\* to the (x, y) of the latest setBounds call on that window.
DragEndReportsLastBounds ==
    /\ \A w \in Windows :
          last.op = "WM_LBUTTONUP" /\ last.w = w /\ last.dragEnd # <<>> =>
              /\ Len(last.dragEnd) = 1
              /\ last.dragEnd[1].position # Null
              /\ last.dragEnd[1].position = Point(bounds[w].x, bounds[w].y)
              /\ hookOpts[w].onDragEnd.kind = "orig"
    /\ platform = "win32" =>
          /\ debs = <<>>
          /\ last.dragEnd # <<>> => last.op = "WM_LBUTTONUP"

\* a release reported a position that two moves had put the window at
DragEndReportsLastBoundsWitness ==
    \E w \in Windows :
        /\ last.op = "WM_LBUTTONUP" /\ last.w = w
        /\ Len(last.dragEnd) = 1
        /\ last.dragEnd[1].position.x = bounds[w].x
        /\ bounds[w].x # bounds[w].y
        /\ moved[w] = 2

\* C15: setWindowDraggable picks its strategy from process.platform alone:
\* under win32 it installs the hooks and never touches the registry, on any
\* other platform it installs no hooks and puts the window in the registry.
\* The registry holds one entry per window, for exactly the windows
\* registered on a non-win32 platform that have not closed, and the entry is
\* the options of the latest registration.
StrategyAndRegistry ==
    /\ DOMAIN registeredWindows \subseteq Windows
    /\ platform = "win32" =>
          /\ DOMAIN registeredWindows = {}
          /\ debs = <<>>
          /\ \A w \in Windows : ~closedListener[w]
          /\ \A w \in Windows : Hooked(w) <=> regOpt[w] # 0
    /\ platform # "win32" =>
          /\ \A w \in Windows : ~Hooked(w)
          /\ DOMAIN registeredWindows =
                 {w \in Windows : regOpt[w] # 0 /\ ~closed[w]}
          /\ \A w \in DOMAIN registeredWindows :
                 registeredWindows[w] = regOpt[w]
          /\ Len(debs) = regCount
    /\ last.op = "setWindowDraggable" =>
          IF platform = "win32"
          THEN Hooked(last.w) /\ last.w \notin DOMAIN registeredWindows
          ELSE ~Hooked(last.w) /\ last.w \in DOMAIN registeredWindows

\* a window has been registered a second time, with another options object,
\* and the registry holds that one
StrategyAndRegistryWitness ==
    \E w \in Windows :
        /\ last.op = "setWindowDraggable" /\ last.w = w
        /\ regCount = 2
        /\ \A v \in Windows \ {w} : regOpt[v] = 0
        /\ w \in DOMAIN registeredWindows
        /\ registeredWindows[w] = 2

\* the debounced closures a call of callable c goes through
RECURSIVE Chain(_)
Chain(c) == IF c.kind = "orig" THEN {} ELSE {c.id} \cup Chain(debs[c.id].fn)

\* the timers that decide when and with what the onDragEnd of w's
\* registration is called
TimersOf(w) ==
    IF regOpt[w] = 0 THEN {} ELSE Chain(options[regOpt[w]].onDragEnd)

WindowOps == {"setWindowDraggable", "WM_MOUSEMOVE", "WM_LBUTTONUP",
              "set-window-draggable", "closed"}

\* C16 as stated: whatever options objects two windows were registered with,
\* a registration, event or message of one window leaves the other window
\* where it is, makes no setBounds call on it, leaves its drag session alone
\* and neither restarts nor re-arms the debounce timers of its onDragEnd.
CrossWindowIsolation ==
    [][\A w \in Windows, v \in Windows :
          v # w /\ last'.op \in WindowOps /\ last'.w = v /\ regOpt[w] # 0 =>
             /\ bounds'[w] = bounds[w]
             /\ \A i \in 1..Len(last'.setBounds) : last'.setBounds[i].w # w
             /\ dragging'[w] = dragging[w]
             /\ initialPos'[w] = initialPos[w]
             /\ cachePosition'[w] = cachePosition[w]
             /\ \A k \in TimersOf(w) : debs'[k] = debs[k]
      ]_vars

----------------------------------------------------------------------------
(* VolumeBtn: the mute toggle and the volume slider *)

\* trackPlayer.setVolume(v): the next render's useVolume() returns v
SetVolume(v) == volume' = v

\* tmpVolumeRef.current after "if (tmpVolumeRef.current === null) ... = 0"
Remembered(ref) == IF ref = << >> THEN Muted ELSE ref[1]

ToggledMutant(tmp, vol) == IF tmp = vol THEN Muted ELSE tmp
\* the value the click passes to setVolume
Toggled(tmp, vol) ==
    IF tmp = vol THEN (IF vol = Muted THEN FullVolume ELSE Muted) ELSE tmp

\* onClick of the volume button
Click ==
    LET tmp == Toggled(Remembered(tmpVolumeRef), volume) IN
    /\ SetVolume(tmp)
    /\ tmpVolumeRef' = <<volume>>
    /\ volLast' = VolFx("click", volume, tmpVolumeRef, tmp)
    /\ volPrev' = volLast
    /\ UNCHANGED <<progVars, last, regVars, moved, sessionVars, burstVars>>

\* onChange of the volume slider
SliderChange(val) ==
    /\ SetVolume(val)
    /\ volLast' = VolFx("slider", volume, tmpVolumeRef, val)
    /\ volPrev' = volLast
    /\ UNCHANGED tmpVolumeRef
    /\ UNCHANGED <<progVars, last, regVars, moved, sessionVars, burstVars>>

InitVolume == InitWindowDrag /\ \E v \in VolumeLevels : InitVolumeBtn(v)

NextVolume ==
    \/ Click
    \/ \E val \in VolumeLevels : SliderChange(val)

SpecVolume == InitVolume /\ [][NextVolume]_vars

\* C18: every click passes to setVolume a value other than the current
\* volume; the second of two clicks with no slider change between them
\* brings back the volume that was set before the first; and whatever
\* clicks and slider changes came before, a click that finds the remembered
\* value equal to the current volume sets 0 when that volume is not 0 and
\* sets 1 when it is 0.
MuteToggle ==
    volLast.op = "click" =>
        /\ volLast.arg # volLast.from
        /\ volume = volLast.arg
        /\ volPrev.op = "click" => volume = volPrev.from
        /\ (volLast.remembered = <<volLast.from>> /\ volLast.from # Muted)
               => volume = Muted
        /\ (volLast.remembered \in {<< >>, <<Muted>>} /\ volLast.from = Muted)
               => volume = FullVolume

\* after a slider change to a volume strictly between 0 and 1, a click that
\* muted it and a second click that brought it back
MuteToggleWitness ==
    /\ volLast.op = "click" /\ volPrev.op = "click"
    /\ volPrev.from \notin {Muted, FullVolume}
    /\ volPrev.remembered = <<volPrev.from>>
    /\ volLast.from = Muted
    /\ volume = volPrev.from

====
